---- MODULE Spec2Model ----
(***************************************************************************)
(* The drop controller of tetriscraft (src/src/hooks/useGameState.ts, the  *)
(* first module of that file): the React state of useGameState, its        *)
(* handlers selectTetromino, moveTetromino, rotateTetromino, dropTetromino *)
(* and completeDrop, and the placement rules they call.                    *)
(*                                                                         *)
(* A board key `${x},${y},${z}` is modelled by the tuple <<x, y, z>>: the  *)
(* keys are only built from integers and compared for equality.            *)
(* A handler is an operator from the current state (the variables) to the  *)
(* state record it leaves behind; an action applies one handler.           *)
(***************************************************************************)
EXTENDS Integers, Sequences, FiniteSets, TLC

VARIABLES queue, activeTetromino, droppingTetromino, boardState, highestY,
          selectedIndex

vars == <<queue, activeTetromino, droppingTetromino, boardState, highestY,
          selectedIndex>>

\* JavaScript's null where the value is otherwise an object or a number (a
\* number is held as [index |-> n], so that it compares with NULL).
NULL == [null |-> TRUE]

\* JavaScript's null where the value is otherwise a string.
NONE == "null"

----------------------------------------------------------------------------
\* Bounds of the model.

\* The anchor of the active cluster is kept within this many unit steps
\* (in x plus in z) of the board centre [1, y, 1].
MaxReach == 1

\* A cluster is selected only while the cells placed on the base, plus its
\* own, are at most this many.
MaxPlaced == 4

\* A cluster is selected during a pending drop only while at most this many
\* cells have been placed on the base.
MaxRacePlaced == 0

\* The types getRandomTetromino is taken to return when the queue is first
\* filled, and when a drop refills it.
InitialTypes == {"WOOD_VERTICAL"}

DrawnTypes == {"BRICK_VERTICAL"}

\* The deltas CameraControls passes to moveTetromino: Math.round of the
\* components of a unit vector.
Deltas == {-1, 0, 1}

\* The indices handed to selectTetromino: every queue slot, and one index on
\* either side of the queue.
Indices == -1 .. 5

----------------------------------------------------------------------------
\* Helpers.

Max(a, b) == IF a >= b THEN a ELSE b

Abs(a) == IF a < 0 THEN 0 - a ELSE a

Range(s) == {s[i] : i \in DOMAIN s}

SetMax(S) == CHOOSE m \in S : \A n \in S : n <= m

SetMin(S) == CHOOSE m \in S : \A n \in S : m <= n

----------------------------------------------------------------------------
\* Shapes and rotation (src/unnamed/part_008, components/Tetromino).

\* The water shapes are defined in components/game/Tetromino, which is not
\* among the sources: flat shapes in the style of the others, by their names.
WATER_SHAPES(type) ==
  CASE type = "WATER_1X3" -> << <<0, 0, 0>>, <<1, 0, 0>>, <<2, 0, 0>> >>
    [] type = "WATER_1X2" -> << <<0, 0, 0>>, <<1, 0, 0>> >>
    [] type = "WATER_L" -> << <<0, 0, 0>>, <<1, 0, 0>>, <<0, 0, 1>> >>

TETROMINO_SHAPES(type) ==
  CASE type = "GRASS_SQUARE" ->
         << <<0, 0, 0>>, <<1, 0, 0>>, <<0, 0, 1>>, <<1, 0, 1>> >>
    [] type = "GRASS_L" ->
         << <<0, 0, 0>>, <<1, 0, 0>>, <<0, 0, 1>>, <<1, 0, 1>>, <<0, 0, 2>> >>
    [] type = "GRASS_T" ->
         << <<0, 0, 0>>, <<0, 0, -1>>, <<-1, 0, 0>>, <<1, 0, 0>> >>
    [] type = "GRASS_1X4" ->
         << <<0, 0, 0>>, <<1, 0, 0>>, <<2, 0, 0>>, <<3, 0, 0>> >>
    [] type = "GRASS_STAIR" ->
         << <<0, 0, 0>>, <<0, 0, 1>>, <<1, 0, 1>>, <<0, 0, 2>>, <<1, 0, 2>>,
            <<2, 0, 2>>, <<0, 0, 3>>, <<1, 0, 3>>, <<2, 0, 3>>, <<3, 0, 3>> >>
    [] type = "BRICK_SINGLE" -> << <<0, 0, 0>> >>
    [] type = "BRICK_VERTICAL" -> << <<0, 0, 0>>, <<0, 0, 1>> >>
    [] type = "BRICK_ARROW" -> << <<0, 0, 0>>, <<1, 0, 0>>, <<1, 0, 1>> >>
    [] type = "BRICK_ARK" ->
         << <<0, 0, 0>>, <<1, 0, 0>>, <<2, 0, 0>>, <<0, 0, 1>>, <<2, 0, 1>> >>
    [] type = "BRICK_2X3" ->
         << <<0, 0, 0>>, <<1, 0, 0>>, <<0, 0, 1>>, <<1, 0, 1>>, <<0, 0, 2>>,
            <<1, 0, 2>> >>
    [] type = "WOOD_SINGLE" -> << <<0, 0, 0>> >>
    [] type = "WOOD_VERTICAL" -> << <<0, 0, 0>>, <<0, 0, 1>> >>
    [] type = "WOOD_ARROW" -> << <<0, 0, 0>>, <<1, 0, 0>>, <<1, 0, 1>> >>
    [] type = "WOOD_DOUBLE" -> << <<0, 0, 0>>, <<2, 0, 0>> >>
    [] OTHER -> WATER_SHAPES(type)

\* Math.cos and Math.sin are inexact at the multiples of 90 degrees: in
\* IEEE doubles cos(pi/2) = 6.1e-17, sin(pi) = 1.2e-16, cos(3pi/2) = -1.8e-16.
\* Values are kept in fixed point with Unit parts to the whole, and the three
\* residues are magnified to 1, 2 and -3 parts, keeping their signs and ratios.
Unit == 1000

Cos(angle) == CASE angle = 0 -> Unit [] angle = 90 -> 1
                [] angle = 180 -> -Unit [] angle = 270 -> -3

Sin(angle) == CASE angle = 0 -> 0 [] angle = 90 -> Unit
                [] angle = 180 -> 2 [] angle = 270 -> -Unit

\* Math.round of a fixed-point value: the nearest integer, halves upwards.
Round(v) == (2 * v + Unit) \div (2 * Unit)

rotatePoint_floor(x, z, angle) ==
  <<(x * Cos(angle) - z * Sin(angle)) \div Unit,
    (x * Sin(angle) + z * Cos(angle)) \div Unit>>

rotatePoint(x, z, angle) ==
  <<Round(x * Cos(angle) - z * Sin(angle)),
    Round(x * Sin(angle) + z * Cos(angle))>>

getRotatedPositions(type, rotation) ==
  LET basePositions == TETROMINO_SHAPES(type)
  IN IF rotation = 0 THEN basePositions
     ELSE [i \in DOMAIN basePositions |->
             LET p == basePositions[i]
                 r == rotatePoint(p[1], p[3], rotation)
             IN <<r[1], p[2], r[2]>>]

----------------------------------------------------------------------------
\* useGameState: constants and pure helpers.

GrassTypes ==
  {"GRASS_SQUARE", "GRASS_L", "GRASS_T", "GRASS_1X4", "GRASS_STAIR"}

BrickTypes ==
  {"BRICK_SINGLE", "BRICK_VERTICAL", "BRICK_ARROW", "BRICK_ARK", "BRICK_2X3"}

WoodTypes == {"WOOD_SINGLE", "WOOD_VERTICAL", "WOOD_ARROW", "WOOD_DOUBLE"}

WaterTypes == {"WATER_1X3", "WATER_1X2", "WATER_L"}

getMaterialFromType(type) ==
  IF type \in GrassTypes THEN "grass"
  ELSE IF type \in BrickTypes THEN "brick"
  ELSE IF type \in WoodTypes THEN "wood"
  ELSE IF type \in WaterTypes THEN "water"
  ELSE "grass"

QueueEntry(type) == [type |-> type, material |-> getMaterialFromType(type)]

presetTypes == <<"WATER_1X3", "WATER_1X2", "WATER_L">>

QUEUE_LENGTH == 5

BOARD_SIZE == 3

BOARD_MIN == 1 - (BOARD_SIZE \div 2)

BOARD_MAX == 1 + ((BOARD_SIZE - 1) \div 2)

\* [initialBoardState, 0] of initializeBoard.
initializeBoard ==
  [board |-> [p \in {<<x, 0, z>> : x \in BOARD_MIN .. BOARD_MAX,
                                   z \in BOARD_MIN .. BOARD_MAX} |-> "grass"],
   highestY |-> 0]

\* The shapes of the catalog.
CatalogTypes == GrassTypes \cup BrickTypes \cup WoodTypes \cup WaterTypes

\* The values of type Rotation.
Rotations == {0, 90, 180, 270}

\* getRotatedPositions is a pure function of the type and the rotation: its
\* values, as getRotatedPositions computes them, tabulated once.
rotatedPositions ==
  [type \in CatalogTypes |->
     [rotation \in Rotations |-> getRotatedPositions(type, rotation)]]

getTetrominoBlockPositions(type, position, rotation) ==
  LET relativePositions == rotatedPositions[type][rotation]
  IN [i \in DOMAIN relativePositions |->
        <<position[1] + relativePositions[i][1],
          position[2] + relativePositions[i][2],
          position[3] + relativePositions[i][3]>>]

\* Infinity: above every distance between two cells of the model.
Infinity == 1000000

\* A distance taken as the largest, over the blocks, of the distance from a
\* block to its nearest board cell.
getMinHorizontalDistanceToBoard_perBlock(blockPositions) ==
  IF DOMAIN boardState = {} THEN Infinity
  ELSE SetMax({SetMin({Abs(b[1] - p[1]) + Abs(b[3] - p[3]) :
                         p \in DOMAIN boardState}) :
                 b \in Range(blockPositions)})

\* The loop returns early with the first distance <= 4 it meets, so its
\* result is <= 4 exactly when the minimum is: the one caller compares the
\* result with 4.
getMinHorizontalDistanceToBoard(blockPositions) ==
  IF DOMAIN boardState = {} THEN Infinity
  ELSE SetMin({Abs(b[1] - p[1]) + Abs(b[3] - p[3]) :
                 b \in Range(blockPositions), p \in DOMAIN boardState})

isWithinHorizontalRange(blockPositions) ==
  LET withinBoardBounds ==
        \A b \in Range(blockPositions) :
          /\ b[1] >= BOARD_MIN /\ b[1] <= BOARD_MAX
          /\ b[3] >= BOARD_MIN /\ b[3] <= BOARD_MAX
  IN IF withinBoardBounds THEN TRUE
     ELSE getMinHorizontalDistanceToBoard(blockPositions) <= 4

\* An adjacency check that also counts the cluster's own blocks as touched.
hasFaceAdjacencyToBoard_self(blockPositions) ==
  \E b \in Range(blockPositions) :
    \E n \in {<<b[1] + 1, b[2], b[3]>>, <<b[1] - 1, b[2], b[3]>>,
              <<b[1], b[2] + 1, b[3]>>, <<b[1], b[2] - 1, b[3]>>,
              <<b[1], b[2], b[3] + 1>>, <<b[1], b[2], b[3] - 1>>} :
      n \in DOMAIN boardState \cup Range(blockPositions)

hasFaceAdjacencyToBoard(blockPositions) ==
  \E b \in Range(blockPositions) :
    \E n \in {<<b[1] + 1, b[2], b[3]>>, <<b[1] - 1, b[2], b[3]>>,
              <<b[1], b[2] + 1, b[3]>>, <<b[1], b[2] - 1, b[3]>>,
              <<b[1], b[2], b[3] + 1>>, <<b[1], b[2], b[3] - 1>>} :
      n \in DOMAIN boardState

\* A lookup of the cell itself instead of the one below it.
getBlockBelow_self(x, y, z, board) ==
  IF <<x, y, z>> \in DOMAIN board THEN board[<<x, y, z>>] ELSE NONE

getBlockBelow(x, y, z, board) ==
  IF <<x, y - 1, z>> \in DOMAIN board THEN board[<<x, y - 1, z>>] ELSE NONE

adjacentPositions(x, y, z) ==
  {<<x + 1, y, z>>, <<x - 1, y, z>>, <<x, y, z + 1>>, <<x, y, z - 1>>}

\* An adjacency check that takes a supported neighbour of any material.
hasAdjacentSameMaterialSupport_anyMaterial(blockPos, material, board) ==
  \E a \in adjacentPositions(blockPos[1], blockPos[2], blockPos[3]) :
    /\ a \in DOMAIN board
    /\ <<a[1], a[2] - 1, a[3]>> \in DOMAIN board

\* An adjacency check that takes a neighbour of the material whether or not
\* anything lies below it.
hasAdjacentSameMaterialSupport_unsupported(blockPos, material, board) ==
  \E a \in adjacentPositions(blockPos[1], blockPos[2], blockPos[3]) :
    a \in DOMAIN board /\ board[a] = material

hasAdjacentSameMaterialSupport(blockPos, material, board) ==
  \E a \in adjacentPositions(blockPos[1], blockPos[2], blockPos[3]) :
    /\ a \in DOMAIN board
    /\ board[a] = material
    /\ <<a[1], a[2] - 1, a[3]>> \in DOMAIN board

\* A floating rule that looks for the sibling's support below the cell
\* itself.
hasAdjacentTetrominoSupport_own(blockPos, board, tetrominoBlockPositions) ==
  \E a \in adjacentPositions(blockPos[1], blockPos[2], blockPos[3]) :
    /\ a \in Range(tetrominoBlockPositions)
    /\ getBlockBelow(blockPos[1], blockPos[2], blockPos[3], board) # NONE

\* A floating rule that takes any adjacent sibling, supported or not.
hasAdjacentTetrominoSupport_unsupported(blockPos, board, tetrominoBlockPositions) ==
  \E a \in adjacentPositions(blockPos[1], blockPos[2], blockPos[3]) :
    a \in Range(tetrominoBlockPositions)

\* The floating rule inside the falling cluster: a horizontally adjacent
\* cell of the same tetromino has a block below it.
hasAdjacentTetrominoSupport(blockPos, board, tetrominoBlockPositions) ==
  \E a \in adjacentPositions(blockPos[1], blockPos[2], blockPos[3]) :
    /\ a \in Range(tetrominoBlockPositions)
    /\ getBlockBelow(a[1], a[2], a[3], board) # NONE

\* A water rule that accepts every level.
waterRule_anyLevel(y) == NONE

\* Rule Water of getBlockPlacementFailureReason.
waterRule(y) ==
  IF y = 0 THEN NONE ELSE "Water must sit on ground level"

\* A brick rule that, like the wood rule, accepts any block below.
brickRule_likeWood(blockPos, blockBelow, board, tetrominoBlockPositions) ==
  IF blockBelow # NONE THEN NONE
  ELSE IF hasAdjacentTetrominoSupport(blockPos, board,
                                      tetrominoBlockPositions) THEN NONE
  ELSE IF hasAdjacentSameMaterialSupport(blockPos, "brick", board) THEN NONE
  ELSE "Brick needs support below or adjacent supported brick"

\* Rule 2 and the brick half of Rule 3 of getBlockPlacementFailureReason.
brickRule(blockPos, blockBelow, board, tetrominoBlockPositions) ==
  IF blockBelow = "brick" \/ blockBelow = "grass" THEN NONE
  ELSE IF blockBelow = NONE THEN
    IF hasAdjacentTetrominoSupport(blockPos, board,
                                   tetrominoBlockPositions) THEN NONE
    ELSE IF hasAdjacentSameMaterialSupport(blockPos, "brick", board)
      THEN NONE
    ELSE "Brick needs support below or adjacent supported brick"
  ELSE "Brick cannot sit on wood"

getBlockPlacementFailureReason(blockPos, material, board, tetrominoBlockPositions) ==
  LET x == blockPos[1]
      y == blockPos[2]
      z == blockPos[3]
      blockBelow == getBlockBelow(x, y, z, board)
  IN IF blockPos \in DOMAIN board THEN "Target cell already occupied"
     ELSE IF y < 0 THEN "Cannot place below board level"
     ELSE IF material = "grass" THEN
       IF blockBelow = "grass" THEN NONE
       ELSE IF y = 0 THEN NONE
       ELSE "Grass must sit on grass or ground level"
     ELSE IF material = "water" THEN waterRule(y)
     ELSE IF material = "wood" THEN
       IF blockBelow # NONE THEN NONE
       ELSE IF hasAdjacentTetrominoSupport(blockPos, board,
                                           tetrominoBlockPositions) THEN NONE
       ELSE IF hasAdjacentSameMaterialSupport(blockPos, material, board)
         THEN NONE
       ELSE "Wood needs support below or adjacent supported wood"
     ELSE IF material = "brick" THEN
       brickRule(blockPos, blockBelow, board, tetrominoBlockPositions)
     ELSE "Unsupported material placement"

evaluatePlacement(type, position, rotation, material) ==
  LET blockPositions == getTetrominoBlockPositions(type, position, rotation)
      reasons == [i \in DOMAIN blockPositions |->
                    getBlockPlacementFailureReason(blockPositions[i], material,
                                                   boardState, blockPositions)]
      failing == {i \in DOMAIN blockPositions : reasons[i] # NONE}
  IN IF failing # {} THEN [valid |-> FALSE, reason |-> reasons[SetMin(failing)]]
     ELSE IF ~isWithinHorizontalRange(blockPositions) THEN
       [valid |-> FALSE, reason |-> "Preview exceeds 4-block horizontal range"]
     ELSE IF material = "grass" /\ ~hasFaceAdjacencyToBoard(blockPositions) THEN
       [valid |-> FALSE,
        reason |-> "Grass tetromino must touch an existing block"]
     ELSE [valid |-> TRUE, reason |-> NONE]

\* A drop that skips the landing check.
isValidLandingPosition_unchecked(type, position, rotation, material) == TRUE

isValidLandingPosition(type, position, rotation, material) ==
  evaluatePlacement(type, position, rotation, material).valid

\* A collision test that looks at the anchor cell only.
hasCollision_anchorOnly(blockPositions) ==
  blockPositions[1] \in DOMAIN boardState \/ blockPositions[1][2] < 0

\* hasCollision of moveTetromino, rotateTetromino and calculateLandingY.
hasCollision(blockPositions) ==
  \E b \in Range(blockPositions) : b \in DOMAIN boardState \/ b[2] < 0

\* A landing loop that tests the cluster's own height instead of the one
\* below it, so that it stops one level too low.
RECURSIVE landingLoop_late(_, _)
landingLoop_late(blockPositions, testY) ==
  IF testY > 0 THEN
    LET testPositions ==
          [i \in DOMAIN blockPositions |->
             <<blockPositions[i][1], testY, blockPositions[i][3]>>]
    IN IF ~isWithinHorizontalRange(testPositions) THEN testY
       ELSE IF hasCollision(testPositions) THEN testY
       ELSE landingLoop_late(blockPositions, testY - 1)
  ELSE testY

\* The while loop of calculateLandingY, from testY down.
RECURSIVE landingLoop(_, _)
landingLoop(blockPositions, testY) ==
  IF testY > 0 THEN
    LET testPositions ==
          [i \in DOMAIN blockPositions |->
             <<blockPositions[i][1], testY - 1, blockPositions[i][3]>>]
    IN IF ~isWithinHorizontalRange(testPositions) THEN testY
       ELSE IF hasCollision(testPositions) THEN testY
       ELSE landingLoop(blockPositions, testY - 1)
  ELSE testY

\* A landing search that never stops above ground level.
calculateLandingY_through(type, position, rotation) == 0

calculateLandingY(type, position, rotation) ==
  LET blockPositions == getTetrominoBlockPositions(type, position, rotation)
  IN Max(0, landingLoop(blockPositions, position[2]))

----------------------------------------------------------------------------
\* The state of the hook, and its handlers.

State ==
  [queue |-> queue, activeTetromino |-> activeTetromino,
   droppingTetromino |-> droppingTetromino, boardState |-> boardState,
   highestY |-> highestY, selectedIndex |-> selectedIndex]

\* queue[index] of JavaScript: undefined outside 0 .. length - 1.
queueHas(index) == index \in 0 .. Len(queue) - 1

queueAt(index) == queue[index + 1]

\* A select that replaces the cluster already active.
selectTetromino_replacing(index) ==
  IF ~queueHas(index) THEN State
  ELSE LET queueItem == queueAt(index)
           spawnY == Max(1, highestY) + 5
       IN [State EXCEPT
             !.activeTetromino = [type |-> queueItem.type,
                                  position |-> <<1, spawnY, 1>>,
                                  rotation |-> 0,
                                  material |-> queueItem.material],
             !.selectedIndex = [index |-> index]]

\* A select that spawns five above highestY, without the floor of 1.
selectTetromino_low(index) ==
  IF activeTetromino # NULL THEN State
  ELSE IF ~queueHas(index) THEN State
  ELSE LET queueItem == queueAt(index)
           spawnY == highestY + 5
       IN [State EXCEPT
             !.activeTetromino = [type |-> queueItem.type,
                                  position |-> <<1, spawnY, 1>>,
                                  rotation |-> 0,
                                  material |-> queueItem.material],
             !.selectedIndex = [index |-> index]]

selectTetromino(index) ==
  IF activeTetromino # NULL THEN State
  ELSE IF ~queueHas(index) THEN State
  ELSE LET queueItem == queueAt(index)
           spawnY == Max(1, highestY) + 5
       IN [State EXCEPT
             !.activeTetromino = [type |-> queueItem.type,
                                  position |-> <<1, spawnY, 1>>,
                                  rotation |-> 0,
                                  material |-> queueItem.material],
             !.selectedIndex = [index |-> index]]

\* A move that checks the collision but not the horizontal range.
moveTetromino_unranged(deltaX, deltaZ) ==
  IF activeTetromino = NULL THEN State
  ELSE LET prev == activeTetromino
           newPosition == <<prev.position[1] + deltaX, prev.position[2],
                            prev.position[3] + deltaZ>>
           blockPositions ==
             getTetrominoBlockPositions(prev.type, newPosition, prev.rotation)
       IN IF hasCollision(blockPositions) THEN State
          ELSE [State EXCEPT !.activeTetromino.position = newPosition]

\* The updater moveTetromino hands to setActiveTetromino, for prev # null.
moveUpdater(prev, deltaX, deltaZ) ==
  LET newPosition == <<prev.position[1] + deltaX, prev.position[2],
                       prev.position[3] + deltaZ>>
      blockPositions ==
        getTetrominoBlockPositions(prev.type, newPosition, prev.rotation)
  IN IF hasCollision(blockPositions)
        \/ ~isWithinHorizontalRange(blockPositions)
     THEN prev
     ELSE [prev EXCEPT !.position = newPosition]

moveTetromino(deltaX, deltaZ) ==
  IF activeTetromino = NULL THEN State
  ELSE [State EXCEPT
          !.activeTetromino = moveUpdater(activeTetromino, deltaX, deltaZ)]

\* A rotate that checks the collision but not the horizontal range.
rotateTetromino_unranged ==
  IF activeTetromino = NULL THEN State
  ELSE LET prev == activeTetromino
           newRotation == (prev.rotation + 90) % 360
           blockPositions ==
             getTetrominoBlockPositions(prev.type, prev.position, newRotation)
       IN IF hasCollision(blockPositions) THEN State
          ELSE [State EXCEPT !.activeTetromino.rotation = newRotation]

\* A rotation that wraps at 270 instead of 360.
rotateUpdater_wrapEarly(prev) ==
  LET newRotation == (prev.rotation + 90) % 270
      blockPositions ==
        getTetrominoBlockPositions(prev.type, prev.position, newRotation)
  IN IF hasCollision(blockPositions)
        \/ ~isWithinHorizontalRange(blockPositions)
     THEN prev
     ELSE [prev EXCEPT !.rotation = newRotation]

\* The updater rotateTetromino hands to setActiveTetromino, for prev # null.
rotateUpdater(prev) ==
  LET newRotation == (prev.rotation + 90) % 360
      blockPositions ==
        getTetrominoBlockPositions(prev.type, prev.position, newRotation)
  IN IF hasCollision(blockPositions)
        \/ ~isWithinHorizontalRange(blockPositions)
     THEN prev
     ELSE [prev EXCEPT !.rotation = newRotation]

rotateTetromino ==
  IF activeTetromino = NULL THEN State
  ELSE [State EXCEPT !.activeTetromino = rotateUpdater(activeTetromino)]

\* A refill that removes the head of the queue, whatever was selected.
spliceAndPush_head(q, index, entry) == Append(Tail(q), entry)

\* queue with the entry at index spliced out and the new entry pushed.
spliceAndPush(q, index, entry) ==
  Append([i \in 1 .. Len(q) - 1 |-> IF i <= index THEN q[i] ELSE q[i + 1]],
         entry)

\* newType is what getRandomTetromino returns. ret is the handler's result.
dropTetromino(newType) ==
  IF activeTetromino = NULL \/ selectedIndex = NULL THEN
    [ret |-> FALSE, state |-> State]
  ELSE
    LET landingY == calculateLandingY(activeTetromino.type,
                                      activeTetromino.position,
                                      activeTetromino.rotation)
        startPosition == activeTetromino.position
        endPosition == <<activeTetromino.position[1], landingY,
                         activeTetromino.position[3]>>
        isValid == isValidLandingPosition(activeTetromino.type, endPosition,
                                          activeTetromino.rotation,
                                          activeTetromino.material)
        newQueue == spliceAndPush(queue, selectedIndex.index,
                                 QueueEntry(newType))
    IN IF ~isValid THEN [ret |-> FALSE, state |-> State]
       ELSE [ret |-> TRUE,
             state |-> [State EXCEPT
               !.droppingTetromino =
                  [type |-> activeTetromino.type,
                   startPosition |-> startPosition,
                   endPosition |-> endPosition,
                   rotation |-> activeTetromino.rotation,
                   material |-> activeTetromino.material,
                   onComplete |-> [newQueue |-> newQueue]],
               !.activeTetromino = NULL]]

\* A preview that tests the cluster where it hovers, not where it lands.
currentLandingIsValid_hovering ==
  IF activeTetromino = NULL THEN TRUE
  ELSE isValidLandingPosition(activeTetromino.type, activeTetromino.position,
                              activeTetromino.rotation,
                              activeTetromino.material)

currentLandingIsValid ==
  IF activeTetromino = NULL THEN TRUE
  ELSE LET landingY == calculateLandingY(activeTetromino.type,
                                         activeTetromino.position,
                                         activeTetromino.rotation)
           landingPosition == <<activeTetromino.position[1], landingY,
                                activeTetromino.position[3]>>
       IN isValidLandingPosition(activeTetromino.type, landingPosition,
                                 activeTetromino.rotation,
                                 activeTetromino.material)

\* A commit that starts from an empty map instead of a copy of the board.
newBoardState_uncopied(board, blockPositions, material) ==
  [p \in Range(blockPositions) |-> material]

\* newBoardState of completeDrop: a copy of the board with the blocks set.
newBoardState(board, blockPositions, material) ==
  [p \in DOMAIN board \cup Range(blockPositions) |->
     IF p \in Range(blockPositions) THEN material ELSE board[p]]

\* A highest Y taken from the x coordinate of the blocks.
newHighestY_x(highest, blockPositions) ==
  SetMax({highest} \cup {p[1] : p \in Range(blockPositions)})

newHighestY(highest, blockPositions) ==
  SetMax({highest} \cup {p[2] : p \in Range(blockPositions)})

completeDrop ==
  IF droppingTetromino = NULL THEN State
  ELSE LET d == droppingTetromino
           blockPositions ==
             getTetrominoBlockPositions(d.type, d.endPosition, d.rotation)
       IN [State EXCEPT
             !.boardState = newBoardState(boardState, blockPositions,
                                          d.material),
             !.highestY = newHighestY(highestY, blockPositions),
             !.droppingTetromino = NULL,
             \* onComplete()
             !.activeTetromino = NULL,
             !.selectedIndex = NULL,
             !.queue = d.onComplete.newQueue]

----------------------------------------------------------------------------
\* The mesher (src/src/utils/greedyMeshing.ts, src/src/utils/visibleFaces.ts).
\* A Map of occupied blocks is the function occupiedBlocks together with keys,
\* the sequence of its keys in insertion order, which is the order a Map is
\* iterated in. A layer key `${layerValue}_${material}` is modelled by the
\* pair <<layerValue, material>>: no material name holds a '_', so
\* parseInt(layerKey.split('_')[0]) is the first component.

directions == <<"top", "bottom", "front", "back", "right", "left">>

\* neighborKey of isFaceVisible.
neighborKey(position, direction) ==
  LET x == position[1]
      y == position[2]
      z == position[3]
  IN CASE direction = "top" -> <<x, y + 1, z>>
       [] direction = "bottom" -> <<x, y - 1, z>>
       [] direction = "front" -> <<x, y, z + 1>>
       [] direction = "back" -> <<x, y, z - 1>>
       [] direction = "right" -> <<x + 1, y, z>>
       [] direction = "left" -> <<x - 1, y, z>>

isFaceVisible(position, direction, occupiedBlocks) ==
  neighborKey(position, direction) \notin DOMAIN occupiedBlocks

getVisibleFacePositions(keys, occupiedBlocks, direction) ==
  LET visible(position) == isFaceVisible(position, direction, occupiedBlocks)
  IN SelectSeq(keys, visible)

\* A layer key that leaves the material out.
layerKey_unkeyed(position, direction, material) ==
  CASE direction \in {"top", "bottom"} -> <<position[2], "">>
    [] direction \in {"front", "back"} -> <<position[3], "">>
    [] direction \in {"right", "left"} -> <<position[1], "">>

\* layerKey of getVisibleFacesByLayer.
layerKey(position, direction, material) ==
  CASE direction \in {"top", "bottom"} -> <<position[2], material>>
    [] direction \in {"front", "back"} -> <<position[3], material>>
    [] direction \in {"right", "left"} -> <<position[1], material>>

\* The loop of getVisibleFacesByLayer over visiblePositions: layerMap is the
\* sequence of the Map's entries [key, faces], in insertion order.
RECURSIVE layerMapLoop(_, _, _, _)
layerMapLoop(visiblePositions, occupiedBlocks, direction, layerMap) ==
  IF visiblePositions = <<>> THEN layerMap
  ELSE LET position == Head(visiblePositions)
           key == layerKey(position, direction, occupiedBlocks[position])
           at == {i \in DOMAIN layerMap : layerMap[i].key = key}
       IN layerMapLoop(
            Tail(visiblePositions), occupiedBlocks, direction,
            IF at = {}
            THEN Append(layerMap, [key |-> key, faces |-> <<position>>])
            ELSE [i \in DOMAIN layerMap |->
                    IF i \in at
                    THEN [layerMap[i] EXCEPT !.faces = Append(@, position)]
                    ELSE layerMap[i]])

getVisibleFacesByLayer(keys, occupiedBlocks, direction) ==
  layerMapLoop(getVisibleFacePositions(keys, occupiedBlocks, direction),
               occupiedBlocks, direction, <<>>)

\* The w and h of a face in greedyMeshLayer.
faceW(position, direction) ==
  CASE direction \in {"top", "bottom"} -> position[1]
    [] direction \in {"front", "back"} -> position[1]
    [] direction \in {"right", "left"} -> position[3]

faceH(position, direction) ==
  CASE direction \in {"top", "bottom"} -> position[3]
    [] direction \in {"front", "back"} -> position[2]
    [] direction \in {"right", "left"} -> position[2]

\* quadPos of greedyMeshLayer.
quadPos(w, h, layerValue, direction) ==
  CASE direction \in {"top", "bottom"} -> <<w, layerValue, h>>
    [] direction \in {"front", "back"} -> <<w, h, layerValue>>
    [] direction \in {"right", "left"} -> <<layerValue, h, w>>

\* A lower bound taken from the first face alone.
lowestOf_first(values) == values[1]

\* minW and minH of greedyMeshLayer: Math.min over the faces, from Infinity.
lowestOf(values) == SetMin(Range(values))

\* maxW and maxH of greedyMeshLayer.
highestOf(values) == SetMax(Range(values))

\* A width search that never widens the quad.
growWidth_single(m, w, h, width, processed) == width

\* The while loop that finds the maximum width.
RECURSIVE growWidth(_, _, _, _, _)
growWidth(m, w, h, width, processed) ==
  IF /\ w + width <= m.maxW
     /\ <<w + width, h>> \in m.grid
     /\ <<w + width, h>> \notin processed
  THEN growWidth(m, w, h, width + 1, processed)
  ELSE width

\* A height search that tests the first column of the span only.
RECURSIVE growHeight_firstColumn(_, _, _, _, _, _)
growHeight_firstColumn(m, w, h, width, height, processed) ==
  IF /\ h + height <= m.maxH
     /\ <<w, h + height>> \in m.grid
     /\ <<w, h + height>> \notin processed
  THEN growHeight_firstColumn(m, w, h, width, height + 1, processed)
  ELSE height

\* The while loop that finds the maximum height for the width.
RECURSIVE growHeight(_, _, _, _, _, _)
growHeight(m, w, h, width, height, processed) ==
  IF /\ h + height <= m.maxH
     /\ \A dw \in 0 .. width - 1 :
          /\ <<w + dw, h + height>> \in m.grid
          /\ <<w + dw, h + height>> \notin processed
  THEN growHeight(m, w, h, width, height + 1, processed)
  ELSE height

\* The two for loops of greedyMeshLayer, from (w, h) on.
RECURSIVE sweep(_, _, _, _, _)
sweep(m, w, h, processed, quads) ==
  IF h > m.maxH THEN quads
  ELSE IF w > m.maxW THEN sweep(m, m.minW, h + 1, processed, quads)
  ELSE IF <<w, h>> \notin m.grid \/ <<w, h>> \in processed
    THEN sweep(m, w + 1, h, processed, quads)
  ELSE LET width == growWidth(m, w, h, 1, processed)
           height == growHeight(m, w, h, width, 1, processed)
       IN sweep(m, w + 1, h,
                processed \cup {<<w + dw, h + dh>> :
                                  dw \in 0 .. width - 1, dh \in 0 .. height - 1},
                Append(quads,
                       [position |-> quadPos(w, h, m.layerValue, m.direction),
                        direction |-> m.direction,
                        width |-> width,
                        height |-> height]))

greedyMeshLayer(faces, direction, layerValue) ==
  LET ws == [i \in DOMAIN faces |-> faceW(faces[i], direction)]
      hs == [i \in DOMAIN faces |-> faceH(faces[i], direction)]
      m == [grid |-> {<<ws[i], hs[i]>> : i \in DOMAIN faces},
            minW |-> lowestOf(ws), maxW |-> highestOf(ws),
            minH |-> lowestOf(hs), maxH |-> highestOf(hs),
            direction |-> direction, layerValue |-> layerValue]
  IN sweep(m, m.minW, m.minH, {}, <<>>)

\* The loop of greedyMeshFaces over the entries of layerMap.
RECURSIVE layerQuads(_, _)
layerQuads(layerMap, direction) ==
  IF layerMap = <<>> THEN <<>>
  ELSE greedyMeshLayer(Head(layerMap).faces, direction, Head(layerMap).key[1])
         \o layerQuads(Tail(layerMap), direction)

greedyMeshFaces(keys, occupiedBlocks, direction) ==
  layerQuads(getVisibleFacesByLayer(keys, occupiedBlocks, direction), direction)

generateAllQuads(keys, occupiedBlocks) ==
  IF DOMAIN occupiedBlocks = {} THEN <<>>
  ELSE greedyMeshFaces(keys, occupiedBlocks, directions[1])
         \o greedyMeshFaces(keys, occupiedBlocks, directions[2])
         \o greedyMeshFaces(keys, occupiedBlocks, directions[3])
         \o greedyMeshFaces(keys, occupiedBlocks, directions[4])
         \o greedyMeshFaces(keys, occupiedBlocks, directions[5])
         \o greedyMeshFaces(keys, occupiedBlocks, directions[6])

\* materialGeometries of OptimizedBlocks: the material a quad is drawn with.
quadMaterial(quad, board) ==
  IF quad.position \in DOMAIN board THEN board[quad.position] ELSE "grass"

----------------------------------------------------------------------------
\* The state machine.

Apply(s) ==
  /\ queue' = s.queue
  /\ activeTetromino' = s.activeTetromino
  /\ droppingTetromino' = s.droppingTetromino
  /\ boardState' = s.boardState
  /\ highestY' = s.highestY
  /\ selectedIndex' = s.selectedIndex

PlacedCells == Cardinality(DOMAIN boardState) - BOARD_SIZE * BOARD_SIZE

WithinReach(position) ==
  Abs(position[1] - 1) + Abs(position[3] - 1) <= MaxReach

\* The bounds on selectTetromino(index).
WithinPlaced(index) ==
  /\ queueHas(index) =>
       PlacedCells + Len(TETROMINO_SHAPES(queueAt(index).type)) <= MaxPlaced
  /\ droppingTetromino # NULL => PlacedCells <= MaxRacePlaced

Init ==
  /\ \E randomTypes \in [1 .. QUEUE_LENGTH - Len(presetTypes) -> InitialTypes] :
       queue = [i \in 1 .. QUEUE_LENGTH |->
                  QueueEntry(IF i <= Len(presetTypes) THEN presetTypes[i]
                             ELSE randomTypes[i - Len(presetTypes)])]
  /\ activeTetromino = NULL
  /\ droppingTetromino = NULL
  /\ boardState = initializeBoard.board
  /\ highestY = initializeBoard.highestY
  /\ selectedIndex = NULL

SelectTetromino ==
  \E index \in Indices : WithinPlaced(index) /\ Apply(selectTetromino(index))

MoveTetromino ==
  \E deltaX \in Deltas, deltaZ \in Deltas :
    /\ deltaX # 0 \/ deltaZ # 0
    /\ LET s == moveTetromino(deltaX, deltaZ)
       IN /\ s.activeTetromino # NULL => WithinReach(s.activeTetromino.position)
          /\ Apply(s)

RotateTetromino == Apply(rotateTetromino)

DropTetromino ==
  \E newType \in DrawnTypes : Apply(dropTetromino(newType).state)

CompleteDrop == Apply(completeDrop)

Next ==
  \/ SelectTetromino
  \/ MoveTetromino
  \/ RotateTetromino
  \/ DropTetromino
  \/ CompleteDrop

Spec == Init /\ [][Next]_vars

----------------------------------------------------------------------------
\* The flight of one cluster over the fresh board: selectTetromino,
\* moveTetromino and rotateTetromino with every input, and no drop. The
\* horizontal range keeps the anchor near the board, so the state space is
\* finite without a bound on the anchor.

SelectAny == \E index \in Indices : Apply(selectTetromino(index))

MoveAnywhere ==
  \E deltaX \in Deltas, deltaZ \in Deltas : Apply(moveTetromino(deltaX, deltaZ))

FlightNext ==
  \/ SelectAny
  \/ MoveAnywhere
  \/ RotateTetromino

FlightSpec == Init /\ [][FlightNext]_vars

----------------------------------------------------------------------------
\* Covering the base: the player takes the cluster of the first random slot
\* each time, flies it within MaxReach of the centre, and drops it only
\* where it comes to lie flat on the grass of the base.

\* The slots the player selects in CoverSpec: the first random slot.
CoverIndices == {3}

\* The types getRandomTetromino is taken to return in CoverSpec, in the order
\* of the refills; the last one is returned from then on.
CoverDraws == <<"WOOD_VERTICAL", "WOOD_VERTICAL", "BRICK_VERTICAL">>

SelectCover ==
  /\ droppingTetromino = NULL
  /\ \E index \in CoverIndices : Apply(selectTetromino(index))

\* Every cell of the active cluster would land at y = 1 on a cell of the
\* base.
LandsFlatOnBase ==
  LET landingY == calculateLandingY(activeTetromino.type,
                                    activeTetromino.position,
                                    activeTetromino.rotation)
  IN /\ landingY = 1
     /\ \A b \in Range(getTetrominoBlockPositions(activeTetromino.type,
                                                  activeTetromino.position,
                                                  activeTetromino.rotation)) :
          <<b[1], 0, b[3]>> \in DOMAIN initializeBoard.board

DropOntoBase ==
  /\ activeTetromino # NULL => LandsFlatOnBase
  /\ LET drawn == PlacedCells \div 2 + 1
     IN Apply(dropTetromino(CoverDraws[IF drawn <= Len(CoverDraws)
                                       THEN drawn
                                       ELSE Len(CoverDraws)]).state)

CoverNext ==
  \/ SelectCover
  \/ MoveTetromino
  \/ RotateTetromino
  \/ DropOntoBase
  \/ CompleteDrop

CoverSpec == Init /\ [][CoverNext]_vars

----------------------------------------------------------------------------
\* The first drop on the fresh board: a cluster of any queue entry flies
\* anywhere the horizontal range lets it, is dropped, and is committed.

\* The pairs of types getRandomTetromino is taken to return when the queue
\* is first filled, in FirstDropSpec.
FirstDraws ==
  {<<"WOOD_VERTICAL", "BRICK_VERTICAL">>, <<"GRASS_SQUARE", "BRICK_VERTICAL">>}

\* A cluster is selected, in FirstDropSpec, only while no drop is pending and
\* at most this many cells have been placed on the base.
MaxFirstPlaced == 0

FirstInit ==
  /\ \E randomTypes \in FirstDraws :
       queue = [i \in 1 .. QUEUE_LENGTH |->
                  QueueEntry(IF i <= Len(presetTypes) THEN presetTypes[i]
                             ELSE randomTypes[i - Len(presetTypes)])]
  /\ activeTetromino = NULL
  /\ droppingTetromino = NULL
  /\ boardState = initializeBoard.board
  /\ highestY = initializeBoard.highestY
  /\ selectedIndex = NULL

SelectFirst ==
  /\ droppingTetromino = NULL
  /\ PlacedCells <= MaxFirstPlaced
  /\ \E index \in Indices : Apply(selectTetromino(index))

FirstDropNext ==
  \/ SelectFirst
  \/ MoveAnywhere
  \/ RotateTetromino
  \/ DropTetromino
  \/ CompleteDrop

FirstDropSpec == FirstInit /\ [][FirstDropNext]_vars

----------------------------------------------------------------------------
\* Claims.

\* The cells of a record of activeTetromino or droppingTetromino, at position.
CellsAt(type, position, rotation) ==
  Range(getTetrominoBlockPositions(type, position, rotation))

PendingCells ==
  CellsAt(droppingTetromino.type, droppingTetromino.endPosition,
          droppingTetromino.rotation)

\* C1: no accepted drop is lost. An accepted drop waits in droppingTetromino
\* for its completion callback; it leaves that slot only with its cells, at
\* the landing position, written into the grid with its material.
NoAcceptedDropLost ==
  [][(droppingTetromino # NULL /\ droppingTetromino' # droppingTetromino)
       => \A p \in PendingCells :
            /\ p \in DOMAIN boardState'
            /\ boardState'[p] = droppingTetromino.material]_vars

\* C2: at most one falling cluster: never both an active cluster and a
\* commit-pending one.
AtMostOneFallingCluster ==
  ~(activeTetromino # NULL /\ droppingTetromino # NULL)

\* C3: the grid only grows and never overwrites. Every step keeps every
\* occupied coordinate with its material; a pending commit targets only empty
\* coordinates; select, move, rotate and a rejected drop leave the grid alone.
GridOnlyGrows ==
  /\ [](/\ droppingTetromino # NULL => PendingCells \cap DOMAIN boardState = {}
        /\ \A index \in Indices : selectTetromino(index).boardState = boardState
        /\ \A deltaX \in Deltas, deltaZ \in Deltas :
             moveTetromino(deltaX, deltaZ).boardState = boardState
        /\ rotateTetromino.boardState = boardState
        /\ \A newType \in DrawnTypes :
             ~dropTetromino(newType).ret
               => dropTetromino(newType).state.boardState = boardState)
  /\ [][\A p \in DOMAIN boardState :
          p \in DOMAIN boardState' /\ boardState'[p] = boardState[p]]_vars

\* C3 witness: a second commit has been written next to an earlier one.
GridGrewTwice == droppingTetromino = NULL /\ PlacedCells = 4

\* The landing position of the active cluster, and its cells there.
ActiveLandingPosition ==
  <<activeTetromino.position[1],
    calculateLandingY(activeTetromino.type, activeTetromino.position,
                      activeTetromino.rotation),
    activeTetromino.position[3]>>

ActiveLandingCells ==
  getTetrominoBlockPositions(activeTetromino.type, ActiveLandingPosition,
                             activeTetromino.rotation)

\* A cell of the active cluster fails its placement rule at the landing
\* position, or the cluster fails a whole-cluster constraint there.
RejectedAt(cells) ==
  \/ \E c \in Range(cells) :
       getBlockPlacementFailureReason(c, activeTetromino.material, boardState,
                                      cells) # NONE
  \/ ~isWithinHorizontalRange(cells)
  \/ /\ activeTetromino.material = "grass"
     /\ ~hasFaceAdjacencyToBoard(cells)

LandingRejected == RejectedAt(ActiveLandingCells)

\* C4: a rejected drop changes nothing. With a cluster selected whose landing
\* is rejected, dropTetromino returns false and leaves the whole state (active
\* cluster, selected index, queue, grid, highestY, pending slot) as it was.
RejectedDropChangesNothing ==
  (activeTetromino # NULL /\ selectedIndex # NULL) =>
    LET cells == ActiveLandingCells
    IN RejectedAt(cells) =>
         \A newType \in DrawnTypes :
           LET r == dropTetromino(newType)
           IN r.ret = FALSE /\ r.state = State

\* C4 witness: a brick cluster is active over a placed wood cell, where its
\* landing is rejected.
BrickOverWoodRejected ==
  /\ activeTetromino # NULL
  /\ selectedIndex # NULL
  /\ activeTetromino.material = "brick"
  /\ PlacedCells > 0
  /\ LandingRejected

\* The acceptance test of move and rotate on a set of cells.
Acceptable(cells) ==
  /\ \A c \in Range(cells) : c \notin DOMAIN boardState
  /\ \A c \in Range(cells) : c[2] >= 0
  /\ isWithinHorizontalRange(cells)

MovedCells(deltaX, deltaZ) ==
  getTetrominoBlockPositions(
    activeTetromino.type,
    <<activeTetromino.position[1] + deltaX, activeTetromino.position[2],
      activeTetromino.position[3] + deltaZ>>,
    activeTetromino.rotation)

\* C5: moveTetromino(dx, dz) on an active cluster is accepted iff the cells at
\* the shifted anchor pass the acceptance test; accepted, only the anchor's x
\* and z change; rejected, or with no cluster active, the state is unchanged.
MoveAcceptedIffAcceptable ==
  \A deltaX \in Deltas, deltaZ \in Deltas :
    LET s == moveTetromino(deltaX, deltaZ)
    IN IF activeTetromino # NULL /\ Acceptable(MovedCells(deltaX, deltaZ))
       THEN s = [State EXCEPT
                   !.activeTetromino.position =
                      <<activeTetromino.position[1] + deltaX,
                        activeTetromino.position[2],
                        activeTetromino.position[3] + deltaZ>>]
       ELSE s = State

\* C5 witness: a cluster that has been moved off its spawn position stands
\* where one move is accepted and another is rejected.
MoveAtEdgeOfRange ==
  /\ activeTetromino # NULL
  /\ activeTetromino.position[1] # 1
  /\ \E deltaX \in Deltas, deltaZ \in Deltas :
       moveTetromino(deltaX, deltaZ).activeTetromino.position
         # activeTetromino.position
  /\ \E deltaX \in Deltas, deltaZ \in Deltas :
       /\ deltaX # 0 \/ deltaZ # 0
       /\ moveTetromino(deltaX, deltaZ) = State

RotatedCells ==
  getTetrominoBlockPositions(activeTetromino.type, activeTetromino.position,
                             (activeTetromino.rotation + 90) % 360)

\* C6: rotateTetromino on an active cluster advances the rotation by 90 modulo
\* 360 exactly when the rotated cells at the unchanged anchor pass the
\* acceptance test, and changes nothing else; rejected, or with no cluster
\* active, the state is unchanged.
RotateAcceptedIffAcceptable ==
  IF activeTetromino # NULL /\ Acceptable(RotatedCells)
  THEN rotateTetromino =
         [State EXCEPT
            !.activeTetromino.rotation = (activeTetromino.rotation + 90) % 360]
  ELSE rotateTetromino = State

\* C6 witness: a cluster that has been rotated to 180 stands where the next
\* rotation is rejected.
RotateRejectedAfterTurn ==
  /\ activeTetromino # NULL
  /\ activeTetromino.rotation = 180
  /\ rotateTetromino = State

\* C7: selectTetromino(index) takes effect only when no cluster is active and
\* index names a queue entry; it then creates the active cluster with that
\* entry's type and material, rotation 0 and anchor (1, max(1, highestY) + 5,
\* 1), records the index and changes nothing else; otherwise nothing changes.
SelectSpawnsFromQueue ==
  \A index \in Indices :
    LET s == selectTetromino(index)
    IN IF activeTetromino = NULL /\ index >= 0 /\ index < Len(queue)
       THEN /\ s.activeTetromino =
                 [type |-> queue[index + 1].type,
                  material |-> queue[index + 1].material,
                  rotation |-> 0,
                  position |-> <<1, (IF highestY > 1 THEN highestY ELSE 1) + 5,
                                 1>>]
            /\ s.selectedIndex = [index |-> index]
            /\ s.queue = queue
            /\ s.boardState = boardState
            /\ s.highestY = highestY
            /\ s.droppingTetromino = droppingTetromino
       ELSE s = State

\* C7 witness: the refilled entry has been selected after a commit.
RefilledEntrySelected ==
  /\ activeTetromino # NULL
  /\ droppingTetromino = NULL
  /\ highestY = 1
  /\ selectedIndex = [index |-> 4]
  /\ activeTetromino = [type |-> "BRICK_VERTICAL", material |-> "brick",
                        rotation |-> 0, position |-> <<1, 6, 1>>]

\* The anchors calculateLandingY is probed at, relative to the active
\* cluster's: its own, and one beyond the horizontal range of the board.
ProbeOffsets == {<<0, 0>>, <<7, 0>>}

\* The cluster of the given type and rotation, lowered to height h over the
\* footprint of position.
LoweredCells(type, position, rotation, h) ==
  getTetrominoBlockPositions(type, <<position[1], h, position[3]>>, rotation)

CollisionFree(cells) ==
  \A c \in Range(cells) : c \notin DOMAIN boardState /\ c[2] >= 0

\* y is a resting height of the cluster below anchor height position[2]: the
\* cluster is collision-free from y up to the height below the anchor, and
\* y is 0 or the cluster cannot be lowered to y - 1.
RestingHeight(type, position, rotation, y) ==
  /\ 0 <= y /\ y <= position[2]
  /\ \A h \in y .. position[2] - 1 :
       CollisionFree(LoweredCells(type, position, rotation, h))
  /\ \/ y = 0
     \/ ~CollisionFree(LoweredCells(type, position, rotation, y - 1))
     \/ ~isWithinHorizontalRange(LoweredCells(type, position, rotation, y - 1))

\* C8: calculateLandingY for a cluster at anchor height A returns the largest
\* Y in 0 .. A at which the cluster rests: collision-free from Y to A - 1, and
\* Y = 0 or the cluster cannot go down to Y - 1 (a collision or the horizontal
\* range). Checked for the active cluster's type and rotation, at every anchor
\* height up to its own, over the probed anchors, on every board (the
\* function reads no pending drop).
LandingYIsHighestRest ==
  (activeTetromino # NULL /\ droppingTetromino = NULL) =>
    \A o \in ProbeOffsets, A \in 0 .. activeTetromino.position[2] :
      LET position == <<activeTetromino.position[1] + o[1], A,
                        activeTetromino.position[3] + o[2]>>
          Y == calculateLandingY(activeTetromino.type, position,
                                 activeTetromino.rotation)
      IN /\ RestingHeight(activeTetromino.type, position,
                          activeTetromino.rotation, Y)
         /\ \A y \in Y + 1 .. A :
              ~RestingHeight(activeTetromino.type, position,
                             activeTetromino.rotation, y)

\* C8 witness: the active cluster stands over a placed cell, and lands on it
\* at height 2.
LandsOnPlacedCell ==
  /\ activeTetromino # NULL
  /\ calculateLandingY(activeTetromino.type, activeTetromino.position,
                       activeTetromino.rotation) = 2

\* q without its entry at 0-based index i, and entry appended.
Refilled(q, i, entry) ==
  [j \in 1 .. Len(q) |->
     IF j <= i THEN q[j] ELSE IF j < Len(q) THEN q[j + 1] ELSE entry]

\* C9: the queue always has 5 entries; a commit removes the entry at the
\* index selected for the committed cluster, keeps the others in order and
\* appends one fresh entry; nothing else changes the queue.
QueueKeepsFive ==
  /\ [](/\ Len(queue) = 5
        /\ droppingTetromino # NULL =>
             \E i \in 0 .. 4, newType \in DrawnTypes :
               /\ queue[i + 1].type = droppingTetromino.type
               /\ activeTetromino = NULL => selectedIndex = [index |-> i]
               /\ completeDrop.queue = Refilled(queue, i, QueueEntry(newType)))
  /\ [][queue' # queue =>
          /\ droppingTetromino # NULL
          /\ droppingTetromino' = NULL
          /\ queue' = completeDrop.queue]_vars

\* C9 witness: a commit has removed the entry at index 3 and appended the
\* fresh one behind the entry that was at index 4.
QueueRefilled ==
  /\ droppingTetromino = NULL
  /\ PlacedCells = 2
  /\ queue = <<QueueEntry("WATER_1X3"), QueueEntry("WATER_1X2"),
               QueueEntry("WATER_L"), QueueEntry("WOOD_VERTICAL"),
               QueueEntry("BRICK_VERTICAL")>>

\* The maximum y over the occupied cells of the grid.
MaxOccupiedY == SetMax({p[2] : p \in DOMAIN boardState})

ActiveCells ==
  CellsAt(activeTetromino.type, activeTetromino.position,
          activeTetromino.rotation)

Idle == activeTetromino = NULL /\ droppingTetromino = NULL

\* The unoccupied cells with y >= 0 next to a grid cell (a face, an edge or
\* a corner apart): the targets the support rules are probed at.
NearCells ==
  {c \in {<<p[1] + dx, p[2] + dy, p[3] + dz>> :
            p \in DOMAIN boardState, dx \in -1 .. 1, dy \in -1 .. 1,
            dz \in -1 .. 1} :
     c[2] >= 0 /\ c \notin DOMAIN boardState}

\* The clusters a target cell is probed in: alone, with one sibling on each
\* side, and with a sibling two cells away.
SiblingLists(c) ==
  {<<c>>, <<c, <<c[1] + 1, c[2], c[3]>> >>, <<c, <<c[1] - 1, c[2], c[3]>> >>,
   <<c, <<c[1], c[2], c[3] + 1>> >>, <<c, <<c[1], c[2], c[3] - 1>> >>,
   <<c, <<c[1] + 2, c[2], c[3]>> >>}

Below(c) == <<c[1], c[2] - 1, c[3]>>

Sides(c) ==
  {<<c[1] + 1, c[2], c[3]>>, <<c[1] - 1, c[2], c[3]>>,
   <<c[1], c[2], c[3] + 1>>, <<c[1], c[2], c[3] - 1>>}

HoldsBelow(c, material) ==
  Below(c) \in DOMAIN boardState /\ boardState[Below(c)] = material

\* C12: the grass support rule. On every grid, for every unoccupied target
\* cell with y >= 0 and whatever its siblings, a grass cell passes
\* getBlockPlacementFailureReason iff y = 0 or the cell directly below holds
\* grass: above an empty, wood, brick or water cell at y > 0 it is rejected.
GrassSupportRule ==
  Idle =>
    \A c \in NearCells : \A siblings \in SiblingLists(c) :
      (getBlockPlacementFailureReason(c, "grass", boardState, siblings) = NONE)
        <=> (c[2] = 0 \/ HoldsBelow(c, "grass"))

\* C12 witness: a brick cluster has been committed, and a grass cell on top
\* of one of its cells is rejected while one on top of the base is accepted.
GrassOverBrickRejected ==
  /\ Idle
  /\ \E c \in NearCells :
       /\ HoldsBelow(c, "brick")
       /\ getBlockPlacementFailureReason(c, "grass", boardState, <<c>>) # NONE
  /\ \E c \in NearCells :
       /\ c[2] = 1
       /\ getBlockPlacementFailureReason(c, "grass", boardState, <<c>>) = NONE

\* A side neighbour of c that is a sibling with a grid cell below it.
SiblingSupport(c, siblings) ==
  \E a \in Sides(c) : a \in Range(siblings) /\ Below(a) \in DOMAIN boardState

\* A side neighbour of c that is a placed cell of the material with a grid
\* cell below it.
PlacedSupport(c, material) ==
  \E a \in Sides(c) :
    /\ a \in DOMAIN boardState
    /\ boardState[a] = material
    /\ Below(a) \in DOMAIN boardState

\* The cells of a two-cell cluster of the type at anchor c and the rotation
\* are free, and exactly one of them has a grid cell below it.
OneCellSupported(type, c, rotation) ==
  LET cells == CellsAt(type, c, rotation)
  IN /\ cells \cap DOMAIN boardState = {}
     /\ Cardinality({a \in cells : Below(a) \in DOMAIN boardState}) = 1

\* C13: the wood support rule. On every grid, for every unoccupied target
\* cell with y >= 0, a wood cell is accepted when a grid cell lies directly
\* below it; with nothing below it is accepted iff a side neighbour in the
\* same cluster has a grid cell below it or a side neighbour that is placed
\* wood has a grid cell below it. Hence WOOD_VERTICAL with exactly one cell
\* supported from below is a valid placement as a whole.
WoodSupportRule ==
  Idle =>
    \A c \in NearCells :
      /\ \A siblings \in SiblingLists(c) :
           (getBlockPlacementFailureReason(c, "wood", boardState, siblings)
              = NONE)
             <=> \/ Below(c) \in DOMAIN boardState
                 \/ SiblingSupport(c, siblings)
                 \/ PlacedSupport(c, "wood")
      /\ \A rotation \in Rotations :
           OneCellSupported("WOOD_VERTICAL", c, rotation)
             => evaluatePlacement("WOOD_VERTICAL", c, rotation, "wood").valid

\* C13 witness: a wood cluster has been committed with one cell on the base
\* and the other hanging over its edge.
WoodHangsOverEdge ==
  /\ Idle
  /\ \E p \in DOMAIN boardState :
       /\ boardState[p] = "wood"
       /\ Below(p) \notin DOMAIN boardState
       /\ \E a \in Sides(p) : a \in DOMAIN boardState /\ boardState[a] = "wood"

\* C14: the brick support rule. On every grid, for every unoccupied target
\* cell with y >= 0, a brick cell is accepted when the cell directly below is
\* brick or grass; with nothing below it is accepted iff a side neighbour in
\* the same cluster has a grid cell below it or a side neighbour that is
\* placed brick has a grid cell below it; directly above wood it is rejected,
\* whatever its siblings, and BRICK_VERTICAL with one cell directly above
\* wood is an invalid placement as a whole.
BrickSupportRule ==
  Idle =>
    \A c \in NearCells :
      /\ \A siblings \in SiblingLists(c) :
           LET accepted ==
                 getBlockPlacementFailureReason(c, "brick", boardState,
                                                siblings) = NONE
           IN /\ (HoldsBelow(c, "brick") \/ HoldsBelow(c, "grass"))
                   => accepted
              /\ Below(c) \notin DOMAIN boardState
                   => (accepted <=> \/ SiblingSupport(c, siblings)
                                    \/ PlacedSupport(c, "brick"))
              /\ HoldsBelow(c, "wood") => ~accepted
      /\ \A rotation \in Rotations :
           (\E a \in CellsAt("BRICK_VERTICAL", c, rotation) :
              HoldsBelow(a, "wood"))
             => ~evaluatePlacement("BRICK_VERTICAL", c, rotation,
                                   "brick").valid

\* C14 witness: a wood cluster has been committed, and a brick cluster with
\* one cell directly above wood and the other held by that sibling is an
\* invalid placement.
BrickOverWoodWithSibling ==
  /\ Idle
  /\ \E c \in NearCells : \E rotation \in Rotations :
       LET cells == getTetrominoBlockPositions("BRICK_VERTICAL", c, rotation)
       IN /\ Range(cells) \cap DOMAIN boardState = {}
          /\ HoldsBelow(cells[1], "wood")
          /\ Below(cells[2]) \notin DOMAIN boardState
          /\ getBlockPlacementFailureReason(cells[2], "brick", boardState,
                                            cells) = NONE
          /\ ~evaluatePlacement("BRICK_VERTICAL", c, rotation, "brick").valid

\* The cell lies within the fixed board bounds.
InBounds(c) ==
  /\ c[1] >= BOARD_MIN /\ c[1] <= BOARD_MAX
  /\ c[3] >= BOARD_MIN /\ c[3] <= BOARD_MAX

\* The cell lies within Manhattan distance 4, in x and z, of a grid cell.
WithinFour(c) ==
  \E p \in DOMAIN boardState : Abs(c[1] - p[1]) + Abs(c[3] - p[3]) <= 4

\* The range constraint read cell by cell, and read for the cluster.
EveryCellInRange(cells) ==
  \A c \in Range(cells) : InBounds(c) \/ WithinFour(c)

ClusterInRange(cells) ==
  \/ \A c \in Range(cells) : InBounds(c)
  \/ \E c \in Range(cells) : WithinFour(c)

\* The active cluster, at ground level, at an anchor shifted by o.
ProbedCells(o) ==
  getTetrominoBlockPositions(
    activeTetromino.type,
    <<activeTetromino.position[1] + o[1], 0, activeTetromino.position[3] + o[2]>>,
    activeTetromino.rotation)

ProbedPlacement(o) ==
  evaluatePlacement(
    activeTetromino.type,
    <<activeTetromino.position[1] + o[1], 0, activeTetromino.position[3] + o[2]>>,
    activeTetromino.rotation, activeTetromino.material)

\* C15 as claimed: the range constraint holds of a cluster only if every one
\* of its cells is within the board bounds or within distance 4 of a grid
\* cell, so that move, rotate and drop reject a cluster with a cell that is
\* neither. Stated for the clusters of the shapes of components/Tetromino.
RangeHoldsPerCell ==
  (activeTetromino # NULL /\ activeTetromino.type \notin WaterTypes) =>
    /\ \A deltaX \in Deltas, deltaZ \in Deltas :
         (deltaX # 0 \/ deltaZ # 0) =>
           LET cells == MovedCells(deltaX, deltaZ)
           IN /\ isWithinHorizontalRange(cells) => EveryCellInRange(cells)
              /\ ~EveryCellInRange(cells)
                   => moveTetromino(deltaX, deltaZ) = State
    /\ isWithinHorizontalRange(RotatedCells) => EveryCellInRange(RotatedCells)
    /\ ~EveryCellInRange(RotatedCells) => rotateTetromino = State
    /\ \A o \in ProbeOffsets :
         ~EveryCellInRange(ProbedCells(o)) => ~ProbedPlacement(o).valid

\* C15: the range constraint holds of a cluster iff all of its cells are
\* within the board bounds or at least one of its cells is within Manhattan
\* distance 4, in x and z, of a grid cell; move and rotate reject a cluster
\* of which this fails, and so does the placement check of drop.
RangeHoldsPerCluster ==
  activeTetromino # NULL =>
    /\ \A deltaX \in Deltas, deltaZ \in Deltas :
         (deltaX # 0 \/ deltaZ # 0) =>
           LET cells == MovedCells(deltaX, deltaZ)
           IN /\ isWithinHorizontalRange(cells) <=> ClusterInRange(cells)
              /\ ~ClusterInRange(cells)
                   => moveTetromino(deltaX, deltaZ) = State
    /\ isWithinHorizontalRange(RotatedCells) <=> ClusterInRange(RotatedCells)
    /\ ~ClusterInRange(RotatedCells) => rotateTetromino = State
    /\ \A o \in ProbeOffsets :
         LET cells == ProbedCells(o)
         IN /\ isWithinHorizontalRange(cells) <=> ClusterInRange(cells)
            /\ ~ClusterInRange(cells) => ~ProbedPlacement(o).valid
    /\ ~ClusterInRange(ActiveLandingCells)
         => \A newType \in DrawnTypes : ~dropTetromino(newType).ret

\* C15 witness: the active cluster was moved to where one of its cells is
\* outside the bounds and more than 4 away from every grid cell, and a
\* further move that takes every cell that far is rejected.
StandsWithCellOutOfRange ==
  /\ activeTetromino # NULL
  /\ \E c \in ActiveCells : ~InBounds(c) /\ ~WithinFour(c)
  /\ \E deltaX \in Deltas, deltaZ \in Deltas :
       /\ \A c \in Range(MovedCells(deltaX, deltaZ)) : ~WithinFour(c)
       /\ moveTetromino(deltaX, deltaZ) = State

\* A cell of the set shares a face with a grid cell.
TouchesGrid(cells) ==
  \E c \in cells, p \in DOMAIN boardState :
    Abs(c[1] - p[1]) + Abs(c[2] - p[2]) + Abs(c[3] - p[3]) = 1

\* C16: grass adjacency. A pending grass cluster has, at its landing
\* position, a cell that shares a face with a grid cell; an active grass
\* cluster whose landing cells pass the per-cell rules and the range check
\* but touch no grid cell is rejected by dropTetromino, which changes nothing.
GrassMustTouchGrid ==
  /\ (droppingTetromino # NULL /\ droppingTetromino.material = "grass")
       => TouchesGrid(PendingCells)
  /\ (/\ activeTetromino # NULL
      /\ selectedIndex # NULL
      /\ activeTetromino.material = "grass")
       => LET cells == ActiveLandingCells
          IN (/\ \A c \in Range(cells) :
                   getBlockPlacementFailureReason(c, "grass", boardState,
                                                  cells) = NONE
              /\ isWithinHorizontalRange(cells)
              /\ ~TouchesGrid(Range(cells)))
               => \A newType \in DrawnTypes :
                    LET r == dropTetromino(newType)
                    IN r.ret = FALSE /\ r.state = State

\* C16 witness: a grass cluster stands beside the base with a gap between
\* them: its landing cells pass the per-cell rules and the range check, and
\* touch nothing.
GrassIslandRejected ==
  /\ activeTetromino # NULL
  /\ selectedIndex # NULL
  /\ activeTetromino.material = "grass"
  /\ \A c \in Range(ActiveLandingCells) :
       getBlockPlacementFailureReason(c, "grass", boardState,
                                      ActiveLandingCells) = NONE
  /\ isWithinHorizontalRange(ActiveLandingCells)
  /\ ~TouchesGrid(Range(ActiveLandingCells))

\* The cells of a cluster record.
CellsOf(t) == CellsAt(t.type, t.position, t.rotation)

\* A quarter turn of a set of offsets about the vertical axis.
QuarterTurn(offsets) ==
  {<<rotatePoint(p[1], p[3], 90)[1], p[2], rotatePoint(p[1], p[3], 90)[2]>> :
     p \in offsets}

\* C17 as claimed: in every state with an active cluster, four calls of
\* rotateTetromino in a row return the cluster's set of occupied cells to the
\* set it had before the first. Stated for the clusters of the shapes of
\* components/Tetromino.
FourRotatesRestoreCells ==
  (activeTetromino # NULL /\ activeTetromino.type \notin WaterTypes) =>
    LET t1 == rotateUpdater(activeTetromino)
        t2 == rotateUpdater(t1)
        t3 == rotateUpdater(t2)
        t4 == rotateUpdater(t3)
    IN CellsOf(t4) = CellsOf(activeTetromino)

\* C17: in every state with an active cluster, four calls of rotateTetromino
\* in a row that are all accepted return the cluster to the record, and so to
\* the set of occupied cells, it had before the first; each rejected call
\* leaves the cluster as it is, so that the four calls advance the rotation
\* by 90 for each accepted call, modulo 360, and change nothing else. For
\* every catalog shape, the offsets at each rotation are the quarter turn of
\* the offsets at the rotation before, round to the unrotated shape.
FourAcceptedRotatesRestoreCells ==
  /\ activeTetromino # NULL =>
       LET t0 == activeTetromino
           t1 == rotateUpdater(t0)
           t2 == rotateUpdater(t1)
           t3 == rotateUpdater(t2)
           t4 == rotateUpdater(t3)
           accepted == Cardinality({i \in 1 .. 4 :
                                      <<t0, t1, t2, t3, t4>>[i + 1]
                                        # <<t0, t1, t2, t3, t4>>[i]})
       IN /\ accepted = 4 => (t4 = t0 /\ CellsOf(t4) = CellsOf(t0))
          /\ t4 = [t0 EXCEPT !.rotation = (t0.rotation + 90 * accepted) % 360]
  /\ \A type \in CatalogTypes : \A rotation \in Rotations :
       Range(getRotatedPositions(type, (rotation + 90) % 360))
         = QuarterTurn(Range(getRotatedPositions(type, rotation)))

\* C17 witness: a cluster that has been turned three times stands with a
\* cell outside the board bounds, where four more turns are all accepted.
FourTurnsAccepted ==
  /\ activeTetromino # NULL
  /\ activeTetromino.rotation = 270
  /\ \E c \in ActiveCells : ~InBounds(c)
  /\ LET t1 == rotateUpdater(activeTetromino)
         t2 == rotateUpdater(t1)
         t3 == rotateUpdater(t2)
         t4 == rotateUpdater(t3)
     IN t1 # activeTetromino /\ t2 # t1 /\ t3 # t2 /\ t4 # t3

\* The keys of a grid in two insertion orders: ascending in (x, y, z), which
\* for the base is the order initializeBoard sets it in, and descending.
LexLess(a, b) ==
  \/ a[1] < b[1]
  \/ a[1] = b[1] /\ a[2] < b[2]
  \/ a[1] = b[1] /\ a[2] = b[2] /\ a[3] < b[3]

RECURSIVE KeysAscending(_)
KeysAscending(S) ==
  IF S = {} THEN <<>>
  ELSE LET first == CHOOSE a \in S : \A b \in S \ {a} : LexLess(a, b)
       IN <<first>> \o KeysAscending(S \ {first})

KeysDescending(S) ==
  LET up == KeysAscending(S)
  IN [i \in DOMAIN up |-> up[Len(up) + 1 - i]]

\* The quads of the grid.
BoardQuads == generateAllQuads(KeysAscending(DOMAIN boardState), boardState)

\* The cells a quad covers: from its min corner, width and height along the
\* axes of its direction.
Covered(quad) ==
  LET x == quad.position[1]
      y == quad.position[2]
      z == quad.position[3]
      span == (0 .. quad.width - 1) \X (0 .. quad.height - 1)
  IN CASE quad.direction \in {"top", "bottom"} ->
            {<<x + d[1], y, z + d[2]>> : d \in span}
       [] quad.direction \in {"front", "back"} ->
            {<<x + d[1], y + d[2], z>> : d \in span}
       [] quad.direction \in {"right", "left"} ->
            {<<x, y + d[2], z + d[1]>> : d \in span}

\* The unit step of a direction.
Normal(direction) ==
  CASE direction = "top" -> <<0, 1, 0>>
    [] direction = "bottom" -> <<0, -1, 0>>
    [] direction = "front" -> <<0, 0, 1>>
    [] direction = "back" -> <<0, 0, -1>>
    [] direction = "right" -> <<1, 0, 0>>
    [] direction = "left" -> <<-1, 0, 0>>

\* The occupied cells whose neighbour in the direction is empty.
Exposed(direction) ==
  {p \in DOMAIN boardState :
     <<p[1] + Normal(direction)[1], p[2] + Normal(direction)[2],
       p[3] + Normal(direction)[3]>> \notin DOMAIN boardState}

QuadsDependOnContentsOnly ==
  /\ Idle =>
       Range(generateAllQuads(KeysAscending(DOMAIN boardState), boardState))
         = Range(generateAllQuads(KeysDescending(DOMAIN boardState),
                                  boardState))
  /\ generateAllQuads(<<>>, <<>>) = <<>>

\* C19 witness: on a grid with a committed cluster the two insertion orders
\* yield the quads in different orders.
QuadListsDiffer ==
  /\ Idle
  /\ PlacedCells > 0
  /\ generateAllQuads(KeysAscending(DOMAIN boardState), boardState)
       # generateAllQuads(KeysDescending(DOMAIN boardState), boardState)

\* The coordinate of a cell along the normal of a direction.
LayerOf(p, direction) ==
  CASE direction \in {"top", "bottom"} -> p[2]
    [] direction \in {"front", "back"} -> p[3]
    [] direction \in {"right", "left"} -> p[1]

\* C20: no quad mixes layers or materials. Every cell a quad covers is an
\* occupied cell with the coordinate of the quad's min corner along the face
\* normal and with the material of the min-corner cell, which is the material
\* materialGeometries draws the quad with.
QuadsKeepLayerAndMaterial ==
  Idle =>
    \A quad \in Range(BoardQuads) :
      /\ quad.position \in DOMAIN boardState
      /\ \A c \in Covered(quad) :
           /\ c \in DOMAIN boardState
           /\ LayerOf(c, quad.direction) = LayerOf(quad.position, quad.direction)
           /\ boardState[c] = boardState[quad.position]
           /\ boardState[c] = quadMaterial(quad, boardState)

\* C20 witness: a wood cluster stands on the rim of the base, and in one
\* side layer a wood quad lies right above a grass quad.
WoodQuadAboveGrassQuad ==
  /\ Idle
  /\ \E q1 \in Range(BoardQuads), q2 \in Range(BoardQuads) :
       /\ q1.direction = q2.direction
       /\ q1.direction \notin {"top", "bottom"}
       /\ LayerOf(q1.position, q1.direction) = LayerOf(q2.position, q2.direction)
       /\ quadMaterial(q1, boardState) = "grass"
       /\ quadMaterial(q2, boardState) = "wood"
       /\ \E c \in Covered(q1) : <<c[1], c[2] + 1, c[3]>> \in Covered(q2)

----------------------------------------------------------------------------
\* An offset turned about the vertical axis by the exact integer rotation.
Turned(p, rotation) ==
  CASE rotation = 0 -> p
    [] rotation = 90 -> <<-p[3], p[2], p[1]>>
    [] rotation = 180 -> <<-p[1], p[2], -p[3]>>
    [] rotation = 270 -> <<p[3], p[2], -p[1]>>

\* C21: getRotatedPositions is an exact integer rotation. For every shape of
\* the catalog, rotation 0 returns the canonical offset list, and 90, 180 and
\* 270 map every offset (x,y,z) to (-z,y,x), (-x,y,-z) and (z,y,-x), index by
\* index: the list keeps its length and order, its first offset stays
\* (0,0,0), and no two offsets fall on one cell. The cells of the active
\* cluster are its anchor plus the turned canonical offsets.
RotationIsExact ==
  /\ \A type \in CatalogTypes \ WaterTypes, rotation \in Rotations :
       LET base == TETROMINO_SHAPES(type)
           turned == getRotatedPositions(type, rotation)
       IN /\ rotation = 0 => turned = base
          /\ Len(turned) = Len(base)
          /\ \A i \in DOMAIN base : turned[i] = Turned(base[i], rotation)
          /\ turned[1] = <<0, 0, 0>>
          /\ Cardinality(Range(turned)) = Len(base)
  /\ activeTetromino # NULL =>
       ActiveCells =
         {<<activeTetromino.position[1] + o[1],
            activeTetromino.position[2] + o[2],
            activeTetromino.position[3] + o[3]>> :
            o \in {Turned(p, activeTetromino.rotation) :
                     p \in Range(TETROMINO_SHAPES(activeTetromino.type))}}

\* A two-cell cluster turned three quarters: its second cell lies at +x.
ClusterTurnedThreeQuarters ==
  /\ activeTetromino # NULL
  /\ activeTetromino.type = "WOOD_VERTICAL"
  /\ activeTetromino.rotation = 270
  /\ <<activeTetromino.position[1] + 1, activeTetromino.position[2],
       activeTetromino.position[3]>> \in ActiveCells

----------------------------------------------------------------------------
\* The exposed faces a quad may merge: those of its direction, in the layer
\* and of the material of its min corner.
Group(quad) ==
  {p \in Exposed(quad.direction) :
     /\ LayerOf(p, quad.direction) = LayerOf(quad.position, quad.direction)
     /\ boardState[p] = boardState[quad.position]}

\* The four sides a rectangle can grow on.
Sides2D == {"w-", "w+", "h-", "h+"}

\* The quad grown by one column or one row on a side.
Grown(quad, side) ==
  LET x == quad.position[1]
      y == quad.position[2]
      z == quad.position[3]
      lessW == IF quad.direction \in {"right", "left"}
               THEN <<x, y, z - 1>> ELSE <<x - 1, y, z>>
      lessH == IF quad.direction \in {"top", "bottom"}
               THEN <<x, y, z - 1>> ELSE <<x, y - 1, z>>
  IN CASE side = "w-" ->
            [quad EXCEPT !.position = lessW, !.width = quad.width + 1]
       [] side = "w+" -> [quad EXCEPT !.width = quad.width + 1]
       [] side = "h-" ->
            [quad EXCEPT !.position = lessH, !.height = quad.height + 1]
       [] side = "h+" -> [quad EXCEPT !.height = quad.height + 1]

\* C22 as claimed: every emitted quad is a maximal rectangle. A rectangle
\* that strictly contains a quad contains the quad grown by one column or one
\* row on some side, so: for no quad and no side does the grown rectangle
\* consist only of exposed faces of the quad's direction, layer and material.
QuadsAreMaximal ==
  Idle =>
    \A quad \in Range(BoardQuads), side \in Sides2D :
      ~(Covered(Grown(quad, side)) \subseteq Group(quad))

\* C22: every emitted quad is maximal among the faces that the quads emitted
\* before it have left: for every quad and every side, the quad grown by one
\* column or one row on that side covers a cell that is not an exposed face
\* of its direction, layer and material, or a cell of an earlier quad.
QuadsAreMaximalAmongFacesLeft ==
  Idle =>
    LET quads == BoardQuads
    IN \A i \in DOMAIN quads, side \in Sides2D :
         \E c \in Covered(Grown(quads[i], side)) \ Covered(quads[i]) :
           \/ c \notin Group(quads[i])
           \/ \E j \in 1 .. i - 1 :
                /\ quads[j].direction = quads[i].direction
                /\ c \in Covered(quads[j])

\* C22 witness: a cluster stands on the base, and a top quad of the base
\* could grow over exposed faces only, but an earlier quad holds them.
QuadHemmedInByEarlierQuad ==
  /\ Idle
  /\ LET quads == BoardQuads
     IN \E i \in DOMAIN quads, side \in Sides2D :
          /\ quads[i].direction = "top"
          /\ Covered(Grown(quads[i], side)) \subseteq Group(quads[i])
          /\ \E j \in 1 .. i - 1 :
               Covered(Grown(quads[i], side)) \cap Covered(quads[j]) # {}

----------------------------------------------------------------------------
\* The placed cells of the material beside a cell, at its level.
SameMaterialSides(a, material) ==
  {b \in Sides(a) : b \in DOMAIN boardState /\ boardState[b] = material}

\* The placed cells of the material joined to the cells of S by horizontal
\* chains of side-by-side cells of the material, of any length.
RECURSIVE ChainFrom(_, _)
ChainFrom(S, material) ==
  LET next == S \cup UNION {SameMaterialSides(a, material) : a \in S}
  IN IF next = S THEN S ELSE ChainFrom(next, material)

\* A horizontal chain of placed cells of the material leads from the cell to
\* a cell that has a grid cell directly below it.
ChainRests(c, material) ==
  \E b \in ChainFrom(SameMaterialSides(c, material), material) :
    Below(b) \in DOMAIN boardState

\* C23 as claimed: floating support propagates along chains. On every grid, a
\* wood or brick cell with nothing directly below it is accepted whenever a
\* horizontal chain of adjacent cells of its material, of any length, joins
\* it to a cell that rests on something.
ChainOfAnyLengthSupports ==
  Idle =>
    \A c \in NearCells, material \in {"wood", "brick"} :
      (Below(c) \notin DOMAIN boardState /\ ChainRests(c, material)) =>
        getBlockPlacementFailureReason(c, material, boardState, <<c>>) = NONE

\* C23: floating support reaches one cell. On every grid, a wood or brick
\* cell with nothing directly below it is accepted whenever a side neighbour
\* that is a sibling of its cluster or a placed cell of its material has a
\* grid cell directly below it; a lone cell joined to a resting cell only
\* through cells of its material that have nothing below them is rejected.
NeighbourThatRestsSupports ==
  Idle =>
    \A c \in NearCells, material \in {"wood", "brick"} :
      Below(c) \notin DOMAIN boardState =>
        /\ \A siblings \in SiblingLists(c) :
             (SiblingSupport(c, siblings) \/ PlacedSupport(c, material)) =>
               getBlockPlacementFailureReason(c, material, boardState,
                                              siblings) = NONE
        /\ (ChainRests(c, material) /\ ~PlacedSupport(c, material)) =>
             getBlockPlacementFailureReason(c, material, boardState, <<c>>)
               # NONE

\* C23 witness: a placed wood cell hangs over the edge of the base beside
\* its sibling; the cell beyond it is joined to the resting sibling by a
\* chain of two, and is rejected.
CellBeyondOverhangRejected ==
  /\ Idle
  /\ \E c \in NearCells :
       /\ Below(c) \notin DOMAIN boardState
       /\ ChainRests(c, "wood")
       /\ ~PlacedSupport(c, "wood")
       /\ getBlockPlacementFailureReason(c, "wood", boardState, <<c>>) # NONE

----------------------------------------------------------------------------
\* C24: the landing preview agrees with drop. In every state with an active
\* cluster, currentLandingIsValid is true iff dropTetromino called in that
\* state returns true, whatever type the queue would be refilled with.
PreviewAgreesWithDrop ==
  activeTetromino # NULL =>
    \A newType \in DrawnTypes :
      currentLandingIsValid <=> dropTetromino(newType).ret

\* C24 witness: a cluster is active above placed cells, the preview is
\* false, and dropTetromino returns false.
PreviewShowsRejection ==
  /\ activeTetromino # NULL
  /\ PlacedCells > 0
  /\ ~currentLandingIsValid
  /\ \A newType \in DrawnTypes : ~dropTetromino(newType).ret

----------------------------------------------------------------------------
\* C25: no brick on wood. In every state, the cell directly below a brick
\* cell of the grid is brick, grass or empty, never wood; and no pending
\* brick cluster is about to be written directly above a wood cell.
NoBrickAboveWood ==
  /\ \A p \in DOMAIN boardState :
       boardState[p] = "brick" =>
         (Below(p) \in DOMAIN boardState =>
            boardState[Below(p)] \in {"brick", "grass"})
  /\ (droppingTetromino # NULL /\ droppingTetromino.material = "brick") =>
       \A p \in PendingCells : ~HoldsBelow(p, "wood")

\* C25 witness: wood and brick have both been committed, with a brick cell
\* beside a wood cell at the same level.
BrickBesideWood ==
  /\ Idle
  /\ \E p \in DOMAIN boardState :
       /\ boardState[p] = "brick"
       /\ \E a \in Sides(p) : a \in DOMAIN boardState /\ boardState[a] = "wood"

----------------------------------------------------------------------------
\* No grid cell lies in the column of one of the cells at its level or above.
ColumnsClearFrom(cells) ==
  \A c \in cells, p \in DOMAIN boardState :
    (p[1] = c[1] /\ p[3] = c[3]) => p[2] < c[2]

\* C26: nothing is placed inside or beneath existing cells. Whenever a drop
\* is pending, so at the moment of its commit, no grid cell exists at
\* (x,y',z) with y' >= y for any of its cells (x,y,z); and the cells an
\* active cluster would land at have the same property.
NothingPlacedBeneath ==
  /\ droppingTetromino # NULL => ColumnsClearFrom(PendingCells)
  /\ activeTetromino # NULL => ColumnsClearFrom(Range(ActiveLandingCells))

\* C26 witness: a pending cluster is about to be written on top of a placed
\* cell, at y = 2.
PendingAbovePlacedCell ==
  /\ droppingTetromino # NULL
  /\ droppingTetromino.endPosition[2] = 2
  /\ \E c \in PendingCells : Below(c) \in DOMAIN boardState

----------------------------------------------------------------------------
\* C27: ground level holds only grass and water. In every grid no cell has
\* y < 0, every water cell is at y = 0, and every wood and brick cell is at
\* y >= 1; the same holds of the cells of a pending drop.
GroundHoldsGrassAndWater ==
  /\ \A p \in DOMAIN boardState :
       /\ p[2] >= 0
       /\ boardState[p] = "water" => p[2] = 0
       /\ boardState[p] \in {"wood", "brick"} => p[2] >= 1
  /\ droppingTetromino # NULL =>
       \A p \in PendingCells :
         /\ p[2] >= 0
         /\ droppingTetromino.material = "water" => p[2] = 0
         /\ droppingTetromino.material \in {"wood", "brick"} => p[2] >= 1

\* C27 witness: a water cluster has been committed beside the base, at
\* ground level.
WaterCommittedAtGround ==
  /\ Idle
  /\ \E p \in DOMAIN boardState : boardState[p] = "water" /\ p[2] = 0

----------------------------------------------------------------------------
\* C28: overhang is at most one cell. In every grid, every wood or brick
\* cell with no cell directly below it has a side neighbour of its material
\* that has a grid cell directly below it.
OverhangIsOneCell ==
  \A p \in DOMAIN boardState :
    (boardState[p] \in {"wood", "brick"} /\ Below(p) \notin DOMAIN boardState)
      => PlacedSupport(p, boardState[p])

\* C28 witness: a committed wood cell hangs over the edge of the base.
WoodCellOverhangs ==
  /\ Idle
  /\ \E p \in DOMAIN boardState :
       boardState[p] = "wood" /\ Below(p) \notin DOMAIN boardState

----------------------------------------------------------------------------
----------------------------------------------------------------------------
\* The clusters that calls of moveTetromino and rotateTetromino, with any
\* deltas and in any number, lead to from the clusters of frontier; seen
\* holds the clusters already expanded.
RECURSIVE FlightsFrom(_, _)
FlightsFrom(seen, frontier) ==
  IF frontier = {} THEN seen
  ELSE LET reached == seen \cup frontier
           next == {moveUpdater(t, dx, dz) :
                      t \in frontier, dx \in Deltas, dz \in Deltas}
                   \cup {rotateUpdater(t) : t \in frontier}
       IN FlightsFrom(reached, next \ reached)

\* dropTetromino would accept the cluster t where it is.
DropSucceedsFor(t) ==
  /\ selectedIndex # NULL
  /\ isValidLandingPosition(
       t.type,
       <<t.position[1], calculateLandingY(t.type, t.position, t.rotation),
         t.position[3]>>,
       t.rotation, t.material)

\* C29: the game cannot soft-lock on an active cluster. In every state with
\* an active cluster, some finite sequence of moveTetromino and
\* rotateTetromino calls leads to a cluster for which dropTetromino succeeds.
SomeFlightEndsInDrop ==
  activeTetromino # NULL =>
    \/ DropSucceedsFor(activeTetromino)
    \/ \E t \in FlightsFrom({}, {activeTetromino}) : DropSucceedsFor(t)

====
